---------------------------- MODULE Spec2Model ----------------------------
(***************************************************************************)
(* Timeline reconstruction and deterministic anomaly engine of the mobile  *)
(* forensics tool: the two timeline builders (timeline/timeline_builder.py *)
(* and timeline/build_live_timeline.py), the anomaly analysis pipeline     *)
(* (analysis/anomaly_analysis.py) and the call-log rules                   *)
(* (analysis/anomaly_calls_analysis.py).                                   *)
(*                                                                         *)
(* Strings are sequences of character codes (ASCII), so that Python's      *)
(* string order, string concatenation and strptime act on what they act on *)
(* in the program.  A JSON value of a record is absent (the key is not in  *)
(* the dict), null, or a string.                                           *)
(***************************************************************************)
EXTENDS Integers, Sequences, FiniteSets, TLC

VARIABLES
    files,               \* evidence/processed/*.json, per source
    processed_dir_exists,\* os.path.exists(processed_dir)
    now,                 \* the wall clock, held fixed during a run
    timeline_json,       \* timeline/timeline.json written by build_unified_timeline
    live_timeline_json,  \* cases/<id>/timeline/timeline.json of build_live_timeline
    pc,                  \* position of anomaly_analysis.main
    evidence_data,       \* main: result of load_processed_evidence
    normalized_data,     \* main: result of normalize_timestamps (mutable lists)
    gap_anomalies,       \* main: result of detect_timestamp_gaps
    deletion_anomalies,  \* main: result of detect_post_deletion_activity
    temporal_anomalies,  \* main: result of detect_temporal_inconsistencies
    data_anomalies,      \* main: result of detect_data_inconsistencies
    all_anomalies,       \* main: the combined finding list
    severity_assessment, \* main: result of calculate_anomaly_severity
    anomaly_report,      \* main: result of generate_anomaly_report
    report_json,         \* analysis/anomaly_analysis_report.json
    call_pc,             \* position of anomaly_calls_analysis.main
    calls,               \* calls main: result of load_calls
    findings             \* calls main: result of detect_call_anomalies

vars == <<files, processed_dir_exists, now, timeline_json, live_timeline_json,
          pc, evidence_data, normalized_data, gap_anomalies, deletion_anomalies,
          temporal_anomalies, data_anomalies, all_anomalies,
          severity_assessment, anomaly_report, report_json,
          call_pc, calls, findings>>

\* The variables of anomaly_calls_analysis.main.
call_vars == <<call_pc, calls, findings>>

-----------------------------------------------------------------------------
(* Bounds of the model.                                                    *)

\* Largest number of evidence records over all source files of one input.
MaxRecs == 3

\* Largest length of an anomaly list handed directly to the classifier.
MaxAnoms == 3

-----------------------------------------------------------------------------
(* Strings and JSON values.                                                *)

Sources == <<"SMS", "CALL", "MEDIA", "APP">>

SourceSet == {Sources[i] : i \in DOMAIN Sources}

\* The source names as they stand in a record's "source" field.
SourceChars(s) ==
    CASE s = "SMS"   -> <<83, 77, 83>>
      [] s = "CALL"  -> <<67, 65, 76, 76>>
      [] s = "MEDIA" -> <<77, 69, 68, 73, 65>>
      [] OTHER       -> <<65, 80, 80>>

JAbsent == [kind |-> "absent", chars |-> <<>>]

JNull == [kind |-> "null", chars |-> <<>>]

JStr(s) == [kind |-> "str", chars |-> s]

\* "deleted"
STR_deleted == <<100, 101, 108, 101, 116, 101, 100>>

\* "created"
STR_created == <<99, 114, 101, 97, 116, 101, 100>>

\* "None": what an f-string prints for a null
STR_None == <<78, 111, 110, 101>>

\* "unknown"
STR_unknown == <<117, 110, 107, 110, 111, 119, 110>>

\* "_"
STR_underscore == <<95>>

IsDigit(c) == c \in 48..57

DigitVal(c) == c - 48

\* Python's str < str: code point order, a proper prefix is smaller.
RECURSIVE StrLess(_, _)
StrLess(a, b) ==
    IF b = <<>> THEN FALSE
    ELSE IF a = <<>> THEN TRUE
    ELSE IF Head(a) # Head(b) THEN Head(a) < Head(b)
    ELSE StrLess(Tail(a), Tail(b))

\* s[:n]
Prefix(s, n) == IF Len(s) <= n THEN s ELSE SubSeq(s, 1, n)

-----------------------------------------------------------------------------
(* datetime and timedelta.                                                 *)

DT(y, mo, d, h, mi, s) ==
    [year |-> y, month |-> mo, day |-> d, hour |-> h, minute |-> mi, second |-> s]

\* parsed_timestamp = None
NoDatetime == DT(0, 0, 0, 0, 0, 0)

IsLeap(y) == (y % 4 = 0) /\ ((y % 100 # 0) \/ (y % 400 = 0))

DaysInMonth(y, m) ==
    IF m = 2 THEN (IF IsLeap(y) THEN 29 ELSE 28)
    ELSE IF m \in {4, 6, 9, 11} THEN 30 ELSE 31

RECURSIVE DaysBeforeMonth(_, _)
DaysBeforeMonth(y, m) ==
    IF m <= 1 THEN 0 ELSE DaysBeforeMonth(y, m - 1) + DaysInMonth(y, m - 1)

DaysBeforeYear(y) ==
    LET p == y - 1 IN p * 365 + (p \div 4) - (p \div 100) + (p \div 400)

\* datetime.toordinal()
ToOrdinal(dt) == DaysBeforeYear(dt.year) + DaysBeforeMonth(dt.year, dt.month) + dt.day

SecondOfDay(dt) == dt.second + dt.minute * 60 + dt.hour * 3600

\* datetime < datetime
DtLess(a, b) ==
    \/ ToOrdinal(a) < ToOrdinal(b)
    \/ ToOrdinal(a) = ToOrdinal(b) /\ SecondOfDay(a) < SecondOfDay(b)

\* datetime - datetime: a timedelta normalised to 0 <= seconds < 86400
DtSub(a, b) ==
    LET dd == ToOrdinal(a) - ToOrdinal(b)
        ds == SecondOfDay(a) - SecondOfDay(b)
    IN  IF ds < 0 THEN [days |-> dd - 1, seconds |-> ds + 86400]
        ELSE [days |-> dd, seconds |-> ds]

\* timedelta.total_seconds()
TotalSeconds(td) == td.days * 86400 + td.seconds

\* two decimal digits, zero padded
Pad2(n) == <<48 + (n \div 10), 48 + (n % 10)>>

\* str(n) of a natural number
RECURSIVE Decimal(_)
Decimal(n) == IF n < 10 THEN <<48 + n>> ELSE Decimal(n \div 10) \o <<48 + (n % 10)>>

\* datetime.strftime("%Y-%m-%d %H:%M:%S"); the C library's %Y does not pad
\* a year below 1000.
Strftime(dt) ==
    Decimal(dt.year) \o <<45>> \o Pad2(dt.month) \o <<45>> \o Pad2(dt.day) \o <<32>>
    \o Pad2(dt.hour) \o <<58>> \o Pad2(dt.minute) \o <<58>> \o Pad2(dt.second)

-----------------------------------------------------------------------------
(* datetime.strptime(s, "%Y-%m-%d %H:%M:%S"): the format's regular         *)
(* expression, \d\d\d\d - (1[0-2]|0[1-9]|[1-9]) - (3[01]|[12]\d|0[1-9]|    *)
(* [1-9]| [1-9]) \s+ (2[0-3]|[0-1]\d|\d) : ([0-5]\d|\d) : (6[0-1]|[0-5]\d| *)
(* \d), must match the whole string; the datetime constructor then rejects *)
(* year 0, a day beyond the month's last and a second above 59.            *)

\* The index of the last character of the run of digits that starts at i
\* (i - 1 when s[i] is no digit).
RECURSIVE DigitRunEnd(_, _)
DigitRunEnd(s, i) ==
    IF i <= Len(s) /\ IsDigit(s[i]) THEN DigitRunEnd(s, i + 1) ELSE i - 1

RECURSIVE SpaceRunEnd(_, _)
SpaceRunEnd(s, i) ==
    IF i <= Len(s) /\ s[i] = 32 THEN SpaceRunEnd(s, i + 1) ELSE i - 1

RECURSIVE DigitsValue(_, _, _)
DigitsValue(s, i, j) ==
    IF j < i THEN 0 ELSE DigitsValue(s, i, j - 1) * 10 + DigitVal(s[j])

\* A field of one or two digits starting at i and followed by the character
\* sep (0: the end of the string): [ok, value, next index].
NumField(s, i, sep, lo, hi) ==
    LET j == DigitRunEnd(s, i)
        n == j - i + 1
        v == DigitsValue(s, i, j)
        okLen == n \in {1, 2}
        okSep == IF sep = 0 THEN j = Len(s) ELSE (j + 1 <= Len(s) /\ s[j + 1] = sep)
    IN  [ok |-> okLen /\ okSep /\ v >= lo /\ v <= hi, value |-> v, next |-> j + 2]

\* The day and the white space after it: "dd" or "d" or " d", then \s+.
DayField(s, i) ==
    LET lead == IF i <= Len(s) /\ s[i] = 32 THEN 1 ELSE 0
        j    == DigitRunEnd(s, i + lead)
        n    == j - (i + lead) + 1
        v    == DigitsValue(s, i + lead, j)
        k    == SpaceRunEnd(s, j + 1)
        okLen == IF lead = 1 THEN n = 1 ELSE n \in {1, 2}
    IN  [ok |-> okLen /\ v >= 1 /\ v <= 31 /\ k >= j + 1, value |-> v, next |-> k + 1]

\* The parsed datetime, or NoDatetime where strptime raises ValueError.
ParseTimestamp(s) ==
    LET yEnd == DigitRunEnd(s, 1)
        yOk  == Len(s) >= 5 /\ yEnd >= 4 /\ s[5] = 45
        y    == DigitsValue(s, 1, 4)
        mo   == NumField(s, 6, 45, 1, 12)
        d    == DayField(s, mo.next)
        h    == NumField(s, d.next, 58, 0, 23)
        mi   == NumField(s, h.next, 58, 0, 59)
        se   == NumField(s, mi.next, 0, 0, 61)
    IN  IF ~yOk THEN NoDatetime
        ELSE IF ~mo.ok THEN NoDatetime
        ELSE IF ~d.ok THEN NoDatetime
        ELSE IF ~h.ok THEN NoDatetime
        ELSE IF ~mi.ok THEN NoDatetime
        ELSE IF ~se.ok THEN NoDatetime
        ELSE IF y < 1 \/ d.value > DaysInMonth(y, mo.value) \/ se.value > 59
             THEN NoDatetime
        ELSE DT(y, mo.value, d.value, h.value, mi.value, se.value)


-----------------------------------------------------------------------------
(* Evidence records and evidence files.                                    *)

\* One JSON object of an evidence file: each of the four fields is a JSON
\* value, JAbsent when the object has no such key.
Rec(ts, src, ty, de) == [timestamp |-> ts, source |-> src, type |-> ty, details |-> de]

\* An event of a timeline builder: the record plus "timeline_order" (0: the
\* key is not set).
Event(r, order) ==
    [timestamp |-> r.timestamp, source |-> r.source, type |-> r.type,
     details |-> r.details, timeline_order |-> order]

\* An evidence file: a JSON array ("ok"), no file ("missing"), or a file
\* json.load raises on ("malformed").
File(status, recs) == [status |-> status, recs |-> recs]

SeqsUpTo(S, n) == UNION {[1..k -> S] : k \in 0..n}

ListsFor(Pool, Populated, s, n) == IF s \in Populated THEN SeqsUpTo(Pool, n) ELSE {<<>>}

\* All files are arrays, or one of those of Breakable is missing or malformed,
\* or there is no file at all.
StatusChoices(Breakable) ==
    {[s \in SourceSet |-> "ok"], [s \in SourceSet |-> "missing"]}
    \cup {[s \in SourceSet |-> IF s = b THEN k ELSE "ok"] :
            b \in Breakable, k \in {"missing", "malformed"}}

\* The evidence files of one input: at most MaxRecs records of Pool in all,
\* held by the sources of Populated; a file of Breakable may be missing or
\* malformed instead of an empty array.  The directory can only be missing
\* when every file is.
InitFiles(Pool, Populated, Breakable) ==
    \E a \in ListsFor(Pool, Populated, "SMS", MaxRecs) :
    \E b \in ListsFor(Pool, Populated, "CALL", MaxRecs - Len(a)) :
    \E c \in ListsFor(Pool, Populated, "MEDIA", MaxRecs - Len(a) - Len(b)) :
    \E d \in ListsFor(Pool, Populated, "APP", MaxRecs - Len(a) - Len(b) - Len(c)) :
    \E st \in StatusChoices(Breakable) :
        LET recs == [s \in SourceSet |->
                        CASE s = "SMS" -> a [] s = "CALL" -> b
                          [] s = "MEDIA" -> c [] OTHER -> d]
        IN  /\ \A s \in SourceSet : st[s] # "ok" => recs[s] = <<>>
            /\ files = [s \in SourceSet |-> File(st[s], recs[s])]
            /\ processed_dir_exists \in
                 (IF \A s \in SourceSet : st[s] = "missing"
                  THEN BOOLEAN ELSE {TRUE})

-----------------------------------------------------------------------------
(* The timeline builders.                                                  *)

\* A loader that keeps only the file read last.
ExtendEvents_KeepsLast(all_events, events) == events

\* list.extend
ExtendEvents(all_events, events) == all_events \o events

\* timeline_builder.py: "if 'source' not in event: event['source'] = ..."
WithSource(r, s) ==
    IF r.source.kind = "absent"
    THEN [r EXCEPT !.source = JStr(SourceChars(s))]
    ELSE r

\* An open that truncates: open(path, 'w') leaves every file an empty one.
OpenedForReading_Truncated(fs) == [s \in SourceSet |-> File("ok", <<>>)]

\* "with open(path, 'r') as f: json.load(f)", after os.path.exists: the
\* evidence files are read, none is created or written.
OpenedForReading(fs) == fs

\* The loading loop of build_unified_timeline over evidence_files[k..]:
\* a file that is missing or that json.load raises on adds nothing.
RECURSIVE UnifiedLoad(_, _, _)
UnifiedLoad(fs, k, all_events) ==
    IF k > Len(Sources) THEN all_events
    ELSE LET s == Sources[k]
             events == [i \in DOMAIN fs[s].recs |-> Event(WithSource(fs[s].recs[i], s), 0)]
         IN  IF fs[s].status = "ok"
             THEN UnifiedLoad(fs, k + 1, ExtendEvents(all_events, events))
             ELSE UnifiedLoad(fs, k + 1, all_events)

\* The loading loop of build_live_timeline: every event gets a provisional
\* timeline_order, no source is filled in.
RECURSIVE LiveLoad(_, _, _)
LiveLoad(fs, k, timeline_events) ==
    IF k > Len(Sources) THEN timeline_events
    ELSE LET s == Sources[k]
             events == [i \in DOMAIN fs[s].recs |->
                          Event(fs[s].recs[i], Len(timeline_events) + i)]
         IN  IF fs[s].status = "ok"
             THEN LiveLoad(fs, k + 1, ExtendEvents(timeline_events, events))
             ELSE LiveLoad(fs, k + 1, timeline_events)

\* key=lambda x: x.get('timestamp', '')
TimestampKey(e) == IF e.timestamp.kind = "absent" THEN JStr(<<>>) ELSE e.timestamp

\* Comparing the keys raises TypeError: some key is no string (null < str
\* and null < null are not supported) and there is something to compare.
TimestampSortRaises(events) ==
    Len(events) >= 2 /\ \E i \in DOMAIN events : TimestampKey(events[i]).kind # "str"

\* A sort by the same key that is not stable: equal keys come out in the
\* reverse of their input order.
SortedByTimestampKey_Unstable(events) ==
    LET key(i) == TimestampKey(events[i]).chars
        before(j, i) == StrLess(key(j), key(i)) \/ (key(j) = key(i) /\ j > i)
        rank(i) == 1 + Cardinality({j \in DOMAIN events : before(j, i)})
    IN  [r \in DOMAIN events |-> events[CHOOSE i \in DOMAIN events : rank(i) = r]]

\* sorted(events, key=...) on string keys: Python's sort is stable, so an
\* element's place is the number of elements with a smaller key, or with an
\* equal key and an earlier position.
SortedByTimestampKey(events) ==
    LET key(i) == TimestampKey(events[i]).chars
        before(j, i) == StrLess(key(j), key(i)) \/ (key(j) = key(i) /\ j < i)
        rank(i) == 1 + Cardinality({j \in DOMAIN events : before(j, i)})
    IN  [r \in DOMAIN events |-> events[CHOOSE i \in DOMAIN events : rank(i) = r]]

\* sort_events_chronologically: "except Exception: return events"
sort_events_chronologically(events) ==
    IF TimestampSortRaises(events) THEN events ELSE SortedByTimestampKey(events)

\* A builder that leaves every event the number it had before the sort.
AssignTimelineOrder_Provisional(events) == events

\* "for i, event in enumerate(sorted_events): event['timeline_order'] = i + 1"
AssignTimelineOrder(events) ==
    [i \in DOMAIN events |-> [events[i] EXCEPT !.timeline_order = i]]

\* The index of the first event whose key cannot be compared.
FirstBadKey(events) ==
    CHOOSE i \in DOMAIN events :
        /\ TimestampKey(events[i]).kind # "str"
        /\ \A j \in 1..(i - 1) : TimestampKey(events[j]).kind = "str"

\* timeline_events.sort(key=...) in place: when a comparison raises, the
\* list is left partially sorted.  The sort works from the front and stops
\* at the first key it cannot compare: the events before it are sorted
\* (CPython's insertion of one element after the other) or still as they
\* were (the raise came while the first run was counted), the others are
\* where they were.
LiveSortOutcomes(events) ==
    IF TimestampSortRaises(events)
    THEN LET m == FirstBadKey(events)
             front == SortedByTimestampKey(SubSeq(events, 1, m - 1))
             rest == SubSeq(events, m, Len(events))
         IN  {events, front \o rest}
    ELSE {SortedByTimestampKey(events)}

NoTimeline == [written |-> FALSE, events |-> <<>>]

build_unified_timeline ==
    /\ ~timeline_json.written
    /\ LET all_events == UnifiedLoad(files, 1, <<>>)
           sorted_events == sort_events_chronologically(all_events)
       IN  timeline_json' = [written |-> TRUE, events |-> AssignTimelineOrder(sorted_events)]
    /\ files' = OpenedForReading(files)
    /\ UNCHANGED <<processed_dir_exists, now, live_timeline_json, pc,
                   evidence_data, normalized_data, gap_anomalies, deletion_anomalies,
                   temporal_anomalies, data_anomalies, all_anomalies,
                   severity_assessment, anomaly_report, report_json>>
    /\ UNCHANGED call_vars

build_live_timeline ==
    /\ ~live_timeline_json.written
    /\ \E sorted \in LiveSortOutcomes(LiveLoad(files, 1, <<>>)) :
          live_timeline_json' = [written |-> TRUE, events |-> AssignTimelineOrder(sorted)]
    /\ files' = OpenedForReading(files)
    /\ UNCHANGED <<processed_dir_exists, now, timeline_json, pc,
                   evidence_data, normalized_data, gap_anomalies, deletion_anomalies,
                   temporal_anomalies, data_anomalies, all_anomalies,
                   severity_assessment, anomaly_report, report_json>>
    /\ UNCHANGED call_vars

-----------------------------------------------------------------------------
(* anomaly_analysis.py: loading and normalising.                           *)

\* A loader that gives up on every source when one file cannot be loaded.
load_processed_evidence_AllOrNothing(fs, dir_exists) ==
    [s \in SourceSet |->
        IF dir_exists /\ \A x \in SourceSet : fs[x].status = "ok"
        THEN fs[s].recs ELSE <<>>]

\* load_processed_evidence: a source stays [] when the directory or the file
\* is missing or json.load raises.
load_processed_evidence(fs, dir_exists) ==
    [s \in SourceSet |->
        IF dir_exists /\ fs[s].status = "ok" THEN fs[s].recs ELSE <<>>]

\* A record after normalize_timestamps: a copy of the record with
\* parsed_timestamp and timestamp_valid added.
NormalizedItem(r, parsed, valid) ==
    [timestamp |-> r.timestamp, source |-> r.source, type |-> r.type,
     details |-> r.details, parsed_timestamp |-> parsed, timestamp_valid |-> valid]

\* The body of the loop of normalize_timestamps for a record the except
\* clause covers: KeyError (no timestamp) and ValueError (strptime) are
\* caught and tag the record invalid.
NormalizeRecord(r) ==
    LET parsed == IF r.timestamp.kind = "str"
                  THEN ParseTimestamp(r.timestamp.chars) ELSE NoDatetime
    IN  IF parsed # NoDatetime
        THEN NormalizedItem(r, parsed, TRUE)
        ELSE NormalizedItem(r, NoDatetime, FALSE)

\* strptime raises TypeError for a timestamp that is no string; the except
\* clause names only ValueError and KeyError.
NormalizeRaises(ed) ==
    \E s \in SourceSet : \E i \in DOMAIN ed[s] : ed[s][i].timestamp.kind = "null"

normalize_timestamps(ed) ==
    [s \in SourceSet |-> [i \in DOMAIN ed[s] |-> NormalizeRecord(ed[s][i])]]

-----------------------------------------------------------------------------
(* Anomalies.                                                              *)

\* A finding.  Its details text is kept as the values the f-string prints:
\* a number n, two strings a and b and a list of field names.
Anomaly(ts, s, ty, n, a, b, fields) ==
    [timestamp |-> ts, source |-> s, type |-> ty,
     details |-> [n |-> n, a |-> a, b |-> b, fields |-> fields]]

\* datetime.now().strftime("%Y-%m-%d %H:%M:%S")
NowStamp(t) == Strftime(t)

\* What an f-string prints for record[key] or record.get(key, default).
Printed(v, default) ==
    CASE v.kind = "absent" -> default
      [] v.kind = "null"   -> STR_None
      [] OTHER             -> v.chars

IsValid(e) == e.timestamp_valid

\* A sort that leaves the list as given.
SortedByParsed_AsGiven(list) == list

\* list.sort(key=lambda x: x["parsed_timestamp"]) on valid records: stable.
SortedByParsed(list) ==
    LET key(i) == list[i].parsed_timestamp
        before(j, i) == DtLess(key(j), key(i)) \/ (key(j) = key(i) /\ j < i)
        rank(i) == 1 + Cardinality({j \in DOMAIN list : before(j, i)})
    IN  [r \in DOMAIN list |-> list[CHOOSE i \in DOMAIN list : rank(i) = r]]

-----------------------------------------------------------------------------
(* detect_timestamp_gaps                                                   *)

GAP_THRESHOLD_HOURS == 24

\* The comparison with >= in the place of >.
GapExceeds_AtLeast(time_diff) == TotalSeconds(time_diff) >= GAP_THRESHOLD_HOURS * 3600

\* "if time_diff.total_seconds() > GAP_THRESHOLD_HOURS * 3600"
GapExceeds(time_diff) == TotalSeconds(time_diff) > GAP_THRESHOLD_HOURS * 3600

\* A detector that takes a source with fewer than two valid records for a
\* gap of its own.
GapsOfSource_SilenceIsAGap(s, evidence_list, t) ==
    LET valid_evidence == SelectSeq(evidence_list, IsValid)
        sorted == SortedByParsed(valid_evidence)
        pairs == [i \in 1..(Len(sorted) - 1) |->
                    [prev_event |-> sorted[i], curr_event |-> sorted[i + 1],
                     time_diff |-> DtSub(sorted[i + 1].parsed_timestamp,
                                         sorted[i].parsed_timestamp)]]
        IsGap(p) == GapExceeds(p.time_diff)
        flagged == SelectSeq(pairs, IsGap)
    IN  IF Len(valid_evidence) < 2
        THEN <<Anomaly(NowStamp(t), s, "timestamp_gap", 0, <<>>, <<>>, <<>>)>>
        ELSE [i \in DOMAIN flagged |->
                Anomaly(NowStamp(t), s, "timestamp_gap", flagged[i].time_diff.days,
                        Printed(flagged[i].prev_event.timestamp, <<>>),
                        Printed(flagged[i].curr_event.timestamp, <<>>), <<>>)]

GapsOfSource(s, evidence_list, t) ==
    LET valid_evidence == SelectSeq(evidence_list, IsValid)
        sorted == SortedByParsed(valid_evidence)
        pairs == [i \in 1..(Len(sorted) - 1) |->
                    [prev_event |-> sorted[i], curr_event |-> sorted[i + 1],
                     time_diff |-> DtSub(sorted[i + 1].parsed_timestamp,
                                         sorted[i].parsed_timestamp)]]
        IsGap(p) == GapExceeds(p.time_diff)
        flagged == SelectSeq(pairs, IsGap)
    IN  IF Len(valid_evidence) < 2 THEN <<>>
        ELSE [i \in DOMAIN flagged |->
                Anomaly(NowStamp(t), s, "timestamp_gap", flagged[i].time_diff.days,
                        Printed(flagged[i].prev_event.timestamp, <<>>),
                        Printed(flagged[i].curr_event.timestamp, <<>>), <<>>)]

detect_timestamp_gaps(nd, t) ==
    GapsOfSource("SMS", nd["SMS"], t) \o GapsOfSource("CALL", nd["CALL"], t)
    \o GapsOfSource("MEDIA", nd["MEDIA"], t) \o GapsOfSource("APP", nd["APP"], t)

-----------------------------------------------------------------------------
(* detect_post_deletion_activity                                           *)

\* evidence_list.sort(key=lambda x: x.get("parsed_timestamp", datetime.min)):
\* every normalised record has the key, with None for an invalid timestamp,
\* and None < datetime, datetime < None and None < None raise TypeError.
ParsedSortRaises(list) ==
    Len(list) >= 2 /\ \E i \in DOMAIN list : list[i].parsed_timestamp = NoDatetime

\* What the sort that raises leaves of the list: the records before the
\* first one without a parsed timestamp are sorted or as they were.
FailedParsedSortOutcomes(list) ==
    LET m == CHOOSE i \in DOMAIN list :
                /\ list[i].parsed_timestamp = NoDatetime
                /\ \A j \in 1..(i - 1) : list[j].parsed_timestamp # NoDatetime
    IN  {list, SortedByParsed(SubSeq(list, 1, m - 1)) \o SubSeq(list, m, Len(list))}

\* The first source whose sort raises (0: none does).
FirstRaising(nd) ==
    IF \E k \in DOMAIN Sources : ParsedSortRaises(nd[Sources[k]])
    THEN CHOOSE k \in DOMAIN Sources :
            /\ ParsedSortRaises(nd[Sources[k]])
            /\ \A j \in 1..(k - 1) : ~ParsedSortRaises(nd[Sources[j]])
    ELSE 0

SourceIndex(s) == CHOOSE k \in DOMAIN Sources : Sources[k] = s

IsDeletion(e) == e.type = JStr(STR_deleted) /\ e.timestamp_valid

\* The records counted for one deletion.
IsPostDeletion(e, deletion_time) ==
    /\ e.timestamp_valid
    /\ DtLess(deletion_time, e.parsed_timestamp)
    /\ e.type # JStr(STR_deleted)

\* The findings of one source, from its sorted list.
PostDeletionOfSource(s, evidence_list, t) ==
    LET deletions == SelectSeq(evidence_list, IsDeletion)
        deletion_timestamps == [i \in DOMAIN deletions |-> deletions[i].parsed_timestamp]
        count(dt) == Cardinality({i \in DOMAIN evidence_list :
                                    IsPostDeletion(evidence_list[i], dt)})
        HasActivity(dt) == count(dt) > 0
        reported == SelectSeq(deletion_timestamps, HasActivity)
    IN  [i \in DOMAIN reported |->
            Anomaly(NowStamp(t), s, "post_deletion_activity", count(reported[i]),
                    Strftime(reported[i]), <<>>, <<>>)]

detect_post_deletion_activity(sorted_nd, t) ==
    PostDeletionOfSource("SMS", sorted_nd["SMS"], t)
    \o PostDeletionOfSource("CALL", sorted_nd["CALL"], t)
    \o PostDeletionOfSource("MEDIA", sorted_nd["MEDIA"], t)
    \o PostDeletionOfSource("APP", sorted_nd["APP"], t)

-----------------------------------------------------------------------------
(* detect_temporal_inconsistencies                                         *)

\* The comparison with >= in the place of >.
IsFuture_OrNow(e, current_time) == ~DtLess(e.parsed_timestamp, current_time)

\* "if event_time > current_time"
IsFuture(e, current_time) == DtLess(current_time, e.parsed_timestamp)

TemporalOfSource(s, evidence_list, t) ==
    LET valid_evidence == SelectSeq(evidence_list, IsValid)
        InFuture(e) == IsFuture(e, t)
        future == SelectSeq(valid_evidence, InFuture)
    IN  [i \in DOMAIN future |->
            Anomaly(NowStamp(t), s, "future_timestamp", 0,
                    Printed(future[i].timestamp, <<>>), <<>>, <<>>)]

detect_temporal_inconsistencies(nd, t) ==
    TemporalOfSource("SMS", nd["SMS"], t) \o TemporalOfSource("CALL", nd["CALL"], t)
    \o TemporalOfSource("MEDIA", nd["MEDIA"], t) \o TemporalOfSource("APP", nd["APP"], t)

-----------------------------------------------------------------------------
(* detect_data_inconsistencies                                             *)

required_fields == <<"timestamp", "source", "type", "details">>

\* A check that stops at the first field that is missing.
MissingFields_First(e) ==
    LET NotIn(field) == e[field].kind = "absent"
        all == SelectSeq(required_fields, NotIn)
    IN  IF all = <<>> THEN <<>> ELSE <<Head(all)>>

\* "[field for field in required_fields if field not in evidence]"
MissingFields(e) ==
    LET NotIn(field) == e[field].kind = "absent"
    IN  SelectSeq(required_fields, NotIn)

\* f"{evidence.get('timestamp', '')}_{evidence.get('type', '')}_{evidence.get('details', '')}"
Signature(e) ==
    Printed(e.timestamp, <<>>) \o STR_underscore \o Printed(e.type, <<>>)
    \o STR_underscore \o Printed(e.details, <<>>)

\* event_signatures[signature] after the loop
SignatureCount(evidence_list, sig) ==
    Cardinality({i \in DOMAIN evidence_list : Signature(evidence_list[i]) = sig})

\* "if count > 1"
IsDuplicateCount(count) == count > 1

DataOfSource(s, evidence_list, t) ==
    LET HasMissing(e) == MissingFields(e) # <<>>
        offending == SelectSeq(evidence_list, HasMissing)
        missing == [i \in DOMAIN offending |->
                      Anomaly(NowStamp(t), s, "missing_fields", 0,
                              Printed(offending[i].timestamp, STR_unknown), <<>>,
                              MissingFields(offending[i]))]
        \* the Counter's keys, in the order of their first occurrence
        idx == [i \in DOMAIN evidence_list |-> i]
        IsFirst(i) == \A j \in 1..(i - 1) :
                         Signature(evidence_list[j]) # Signature(evidence_list[i])
        firsts == SelectSeq(idx, IsFirst)
        IsDup(i) == IsDuplicateCount(SignatureCount(evidence_list, Signature(evidence_list[i])))
        dups == SelectSeq(firsts, IsDup)
        duplicates == [k \in DOMAIN dups |->
                         Anomaly(NowStamp(t), s, "duplicate_event",
                                 SignatureCount(evidence_list, Signature(evidence_list[dups[k]])),
                                 Prefix(Signature(evidence_list[dups[k]]), 50), <<>>, <<>>)]
    IN  missing \o duplicates

detect_data_inconsistencies(nd, t) ==
    DataOfSource("SMS", nd["SMS"], t) \o DataOfSource("CALL", nd["CALL"], t)
    \o DataOfSource("MEDIA", nd["MEDIA"], t) \o DataOfSource("APP", nd["APP"], t)

-----------------------------------------------------------------------------
(* calculate_anomaly_severity, generate_anomaly_report, save_anomaly_report *)

Tiers == {"CRITICAL", "HIGH", "MEDIUM", "LOW"}

\* An anomaly dict without the key.
KeyAbsent == "<absent>"

\* A table whose default tier is MEDIUM.
severity_weights_DefaultMedium(anomaly_type) ==
    CASE anomaly_type = "future_timestamp"       -> "CRITICAL"
      [] anomaly_type = "post_deletion_activity" -> "HIGH"
      [] anomaly_type = "timestamp_gap"          -> "MEDIUM"
      [] anomaly_type = "duplicate_event"        -> "LOW"
      [] anomaly_type = "missing_fields"         -> "MEDIUM"
      [] OTHER                                   -> "MEDIUM"

\* severity_weights.get(anomaly.get("type", "unknown"), "LOW")
severity_weights(anomaly_type) ==
    CASE anomaly_type = "future_timestamp"       -> "CRITICAL"
      [] anomaly_type = "post_deletion_activity" -> "HIGH"
      [] anomaly_type = "timestamp_gap"          -> "MEDIUM"
      [] anomaly_type = "duplicate_event"        -> "LOW"
      [] anomaly_type = "missing_fields"         -> "MEDIUM"
      [] OTHER                                   -> "LOW"

AnomalySeverity(anomaly) ==
    severity_weights(IF anomaly.type = KeyAbsent THEN "unknown" ELSE anomaly.type)

\* A classifier that leaves the anomalies of a type its table does not hold
\* out of the tiers.
calculate_anomaly_severity_KnownOnly(anomalies) ==
    LET known == {"future_timestamp", "post_deletion_activity", "timestamp_gap",
                  "duplicate_event", "missing_fields"}
        severity_scores ==
            [tier \in Tiers |->
                Cardinality({i \in DOMAIN anomalies :
                                /\ anomalies[i].type \in known
                                /\ AnomalySeverity(anomalies[i]) = tier})]
    IN  [severity_distribution |-> severity_scores,
         total_anomalies |-> Len(anomalies),
         critical_anomalies |-> severity_scores["CRITICAL"],
         high_anomalies |-> severity_scores["HIGH"]]

calculate_anomaly_severity(anomalies) ==
    LET severity_scores ==
            [tier \in Tiers |->
                Cardinality({i \in DOMAIN anomalies : AnomalySeverity(anomalies[i]) = tier})]
    IN  [severity_distribution |-> severity_scores,
         total_anomalies |-> Len(anomalies),
         critical_anomalies |-> severity_scores["CRITICAL"],
         high_anomalies |-> severity_scores["HIGH"]]

\* anomaly["type"] and anomaly["source"] raise KeyError on a missing key.
ReportRaises(anomalies) ==
    \E i \in DOMAIN anomalies :
        anomalies[i].type = KeyAbsent \/ anomalies[i].source = KeyAbsent

\* Tallies that note a value once, however often it occurs.
Tally_Once(anomalies, field) ==
    [v \in {anomalies[i][field] : i \in DOMAIN anomalies} |-> 1]

\* The defaultdict tallies: a key for every value that occurs.
Tally(anomalies, field) ==
    [v \in {anomalies[i][field] : i \in DOMAIN anomalies} |->
        Cardinality({i \in DOMAIN anomalies : anomalies[i][field] = v})]

generate_anomaly_report(anomalies, assessment, t) ==
    [analysis_timestamp |-> NowStamp(t),
     analysis_type |-> "anomaly_analysis",
     severity_assessment |-> assessment,
     total_anomalies |-> Len(anomalies),
     anomalies_by_type |-> Tally(anomalies, "type"),
     anomalies_by_source |-> Tally(anomalies, "source"),
     findings |-> anomalies]

NoAssessment == calculate_anomaly_severity(<<>>)

NoReport == generate_anomaly_report(<<>>, NoAssessment, NoDatetime)

\* The report file: absent, the complete JSON of a report, or what a write
\* that failed part-way left of it.
ReportFile(state, report) == [state |-> state, report |-> report]

\* save_anomaly_report: open(output_file, 'w') fails (the file is left as it
\* was), or it truncates the file and json.dump completes or fails part-way;
\* every failure is caught and printed.
SaveOutcomes(old, report) ==
    {old, ReportFile("complete", report), ReportFile("partial", NoReport)}

-----------------------------------------------------------------------------
(* The inputs the specifications draw from.                                *)

\* "2023-06-01 10:00:00"
TS_0601_100000 == <<50, 48, 50, 51, 45, 48, 54, 45, 48, 49, 32, 49, 48, 58, 48, 48, 58, 48, 48>>

\* "2023-06-01 10:05:00"
TS_0601_100500 == <<50, 48, 50, 51, 45, 48, 54, 45, 48, 49, 32, 49, 48, 58, 48, 53, 58, 48, 48>>

\* "2023-06-02 09:59:59"
TS_0602_095959 == <<50, 48, 50, 51, 45, 48, 54, 45, 48, 50, 32, 48, 57, 58, 53, 57, 58, 53, 57>>

\* "2023-06-02 10:00:00"
TS_0602_100000 == <<50, 48, 50, 51, 45, 48, 54, 45, 48, 50, 32, 49, 48, 58, 48, 48, 58, 48, 48>>

\* "2023-06-02 10:00:01"
TS_0602_100001 == <<50, 48, 50, 51, 45, 48, 54, 45, 48, 50, 32, 49, 48, 58, 48, 48, 58, 48, 49>>

\* "2023-06-03 09:00:00"
TS_0603_090000 == <<50, 48, 50, 51, 45, 48, 54, 45, 48, 51, 32, 48, 57, 58, 48, 48, 58, 48, 48>>

\* "2023-6-4 10:00:00"
TS_64_unpadded == <<50, 48, 50, 51, 45, 54, 45, 52, 32, 49, 48, 58, 48, 48, 58, 48, 48>>

\* "2023-6-1 9:30:00"
TS_61_unpadded == <<50, 48, 50, 51, 45, 54, 45, 49, 32, 57, 58, 51, 48, 58, 48, 48>>

\* "01/06/2023 10:00"
TS_slashes == <<48, 49, 47, 48, 54, 47, 50, 48, 50, 51, 32, 49, 48, 58, 48, 48>>

\* "2024-01-01 00:00:00"
TS_now == <<50, 48, 50, 52, 45, 48, 49, 45, 48, 49, 32, 48, 48, 58, 48, 48, 58, 48, 48>>

\* "2024-01-01 00:00:01"
TS_after_now == <<50, 48, 50, 52, 45, 48, 49, 45, 48, 49, 32, 48, 48, 58, 48, 48, 58, 48, 49>>

\* "a"
STR_a == <<97>>

\* "b"
STR_b == <<98>>

\* "c"
STR_c == <<99>>

\* "a_b"
STR_a_b == <<97, 95, 98>>

\* "b_c"
STR_b_c == <<98, 95, 99>>

\* Records of the timeline builders' inputs: equal timestamps told apart by
\* their details, an earlier valid timestamp that is not zero padded, and
\* timestamps that are missing, malformed and null.
TimelinePool ==
    {Rec(JStr(TS_0601_100000), JStr(SourceChars("SMS")), JStr(STR_created), JStr(STR_a)),
     Rec(JStr(TS_0601_100000), JAbsent, JStr(STR_created), JStr(STR_b)),
     Rec(JStr(TS_61_unpadded), JStr(SourceChars("CALL")), JStr(STR_created), JStr(STR_a)),
     Rec(JAbsent, JStr(SourceChars("MEDIA")), JStr(STR_created), JStr(STR_a)),
     Rec(JStr(TS_slashes), JStr(SourceChars("APP")), JStr(STR_created), JStr(STR_a)),
     Rec(JNull, JStr(SourceChars("APP")), JStr(STR_created), JStr(STR_b))}

GapRec(ts, s) == Rec(ts, JStr(SourceChars(s)), JStr(STR_created), JStr(STR_a))

\* Records of the gap rule's inputs: 23h59m59s, 24h, 24h00m01s and 47h after
\* the first, a later unpadded one, and an invalid one.
GapPool ==
    {GapRec(JStr(TS_0601_100000), "SMS"), GapRec(JStr(TS_0602_095959), "SMS"),
     GapRec(JStr(TS_0602_100000), "SMS"), GapRec(JStr(TS_0602_100001), "SMS"),
     GapRec(JStr(TS_0603_090000), "SMS"), GapRec(JStr(TS_64_unpadded), "SMS"),
     GapRec(JStr(TS_slashes), "SMS")}

\* Records of the post-deletion rule's inputs.
DeletionPool ==
    {Rec(JStr(TS_0601_100000), JStr(SourceChars("SMS")), JStr(STR_deleted), JStr(STR_a)),
     Rec(JStr(TS_0601_100500), JStr(SourceChars("SMS")), JStr(STR_created), JStr(STR_a)),
     Rec(JStr(TS_0601_100000), JStr(SourceChars("SMS")), JStr(STR_created), JStr(STR_a)),
     Rec(JStr(TS_0601_100500), JStr(SourceChars("SMS")), JStr(STR_deleted), JStr(STR_a)),
     Rec(JStr(TS_0602_100000), JStr(SourceChars("SMS")), JAbsent, JStr(STR_a)),
     Rec(JStr(TS_slashes), JStr(SourceChars("SMS")), JStr(STR_created), JStr(STR_a)),
     Rec(JAbsent, JStr(SourceChars("SMS")), JStr(STR_deleted), JStr(STR_a))}

\* Records of the data-integrity rule's inputs: fields that are missing, an
\* empty string, and values that hold the signature's delimiter.
DataPool ==
    {Rec(JStr(TS_0601_100000), JStr(SourceChars("CALL")), JStr(STR_a_b), JStr(STR_c)),
     Rec(JStr(TS_0601_100000), JStr(SourceChars("CALL")), JStr(STR_a), JStr(STR_b_c)),
     Rec(JStr(TS_0601_100000), JStr(SourceChars("CALL")), JStr(STR_a_b), JAbsent),
     Rec(JStr(TS_0601_100000), JStr(SourceChars("CALL")), JStr(STR_a_b), JStr(<<>>)),
     Rec(JStr(TS_0601_100000), JAbsent, JStr(STR_a_b), JStr(STR_c)),
     Rec(JAbsent, JStr(SourceChars("CALL")), JAbsent, JStr(STR_c)),
     Rec(JStr(TS_slashes), JAbsent, JStr(STR_a_b), JAbsent),
     Rec(JStr(TS_0602_100000), JStr(SourceChars("CALL")), JAbsent, JStr(STR_c))}

\* Records of the future-timestamp rule's inputs: before, at and 1 second
\* after the clock, and timestamps that are malformed and missing.
TemporalPool ==
    {GapRec(JStr(TS_0601_100000), "SMS"), GapRec(JStr(TS_now), "SMS"),
     GapRec(JStr(TS_after_now), "SMS"), GapRec(JStr(TS_slashes), "SMS"),
     GapRec(JAbsent, "SMS")}

\* Records of the loaders' inputs: two valid records two days apart, one of
\* them without a source.
LoadPool ==
    {Rec(JStr(TS_0601_100000), JStr(SourceChars("SMS")), JStr(STR_created), JStr(STR_a)),
     Rec(JStr(TS_0603_090000), JAbsent, JStr(STR_created), JStr(STR_b))}

\* Records of a whole run: before, at and after the clock, a deletion, an
\* invalid and a null timestamp.
MainPool ==
    {Rec(JStr(TS_0601_100000), JStr(SourceChars("SMS")), JStr(STR_deleted), JStr(STR_a)),
     Rec(JStr(TS_0603_090000), JStr(SourceChars("SMS")), JStr(STR_created), JStr(STR_a)),
     Rec(JStr(TS_now), JStr(SourceChars("SMS")), JStr(STR_created), JAbsent),
     Rec(JStr(TS_after_now), JStr(SourceChars("SMS")), JStr(STR_created), JStr(STR_a)),
     Rec(JStr(TS_slashes), JStr(SourceChars("SMS")), JStr(STR_created), JStr(STR_a)),
     Rec(JNull, JStr(SourceChars("SMS")), JStr(STR_created), JStr(STR_a))}

\* The clock of a run: 2024-01-01 00:00:00.
NowPool == {DT(2024, 1, 1, 0, 0, 0)}

AnomalyTypes ==
    {"future_timestamp", "post_deletion_activity", "timestamp_gap",
     "duplicate_event", "missing_fields", "unusual_hour", KeyAbsent}

\* Anomalies handed directly to the classifier.
AnomalyPool ==
    {Anomaly(TS_now, "SMS", ty, 0, <<>>, <<>>, <<>>) : ty \in AnomalyTypes}
    \cup {Anomaly(TS_now, "CALL", "timestamp_gap", 0, <<>>, <<>>, <<>>)}

-----------------------------------------------------------------------------
(* anomaly_analysis.main, one action per call it makes.                    *)

EmptyEvidence == [s \in SourceSet |-> <<>>]

\* An extend that puts the new findings in front.
ExtendAnomalies_InFront(anomalies, found) == found \o anomalies

\* all_anomalies.extend(...)
ExtendAnomalies(anomalies, found) == anomalies \o found

LoadEvidence ==
    /\ pc = "start"
    /\ evidence_data' = load_processed_evidence(files, processed_dir_exists)
    /\ pc' = "loaded"
    /\ files' = OpenedForReading(files)
    /\ UNCHANGED <<processed_dir_exists, now, timeline_json, live_timeline_json,
                   normalized_data, gap_anomalies, deletion_anomalies,
                   temporal_anomalies, data_anomalies, all_anomalies,
                   severity_assessment, anomaly_report, report_json>>
    /\ UNCHANGED call_vars

NormalizeTimestamps ==
    /\ pc = "loaded"
    /\ IF NormalizeRaises(evidence_data)
       THEN pc' = "raised_normalize" /\ UNCHANGED normalized_data
       ELSE pc' = "normalized" /\ normalized_data' = normalize_timestamps(evidence_data)
    /\ UNCHANGED <<files, processed_dir_exists, now, timeline_json, live_timeline_json,
                   evidence_data, gap_anomalies, deletion_anomalies,
                   temporal_anomalies, data_anomalies, all_anomalies,
                   severity_assessment, anomaly_report, report_json>>
    /\ UNCHANGED call_vars

DetectTimestampGaps ==
    /\ pc = "normalized"
    /\ gap_anomalies' = detect_timestamp_gaps(normalized_data, now)
    /\ all_anomalies' = ExtendAnomalies(all_anomalies, gap_anomalies')
    /\ pc' = "gaps"
    /\ UNCHANGED <<files, processed_dir_exists, now, timeline_json, live_timeline_json,
                   evidence_data, normalized_data, deletion_anomalies,
                   temporal_anomalies, data_anomalies,
                   severity_assessment, anomaly_report, report_json>>
    /\ UNCHANGED call_vars

\* The lists of the sources are sorted in place, one source after the other;
\* the sort that raises leaves its list partially sorted and ends main.
DetectPostDeletion ==
    /\ pc = "gaps"
    /\ LET k == FirstRaising(normalized_data)
       IN  IF k = 0
           THEN /\ normalized_data' =
                      [s \in SourceSet |-> SortedByParsed(normalized_data[s])]
                /\ deletion_anomalies' =
                      detect_post_deletion_activity(normalized_data', now)
                /\ all_anomalies' = ExtendAnomalies(all_anomalies, deletion_anomalies')
                /\ pc' = "deletions"
           ELSE /\ \E left \in FailedParsedSortOutcomes(normalized_data[Sources[k]]) :
                      normalized_data' =
                        [s \in SourceSet |->
                            IF SourceIndex(s) < k THEN SortedByParsed(normalized_data[s])
                            ELSE IF SourceIndex(s) = k THEN left
                            ELSE normalized_data[s]]
                /\ pc' = "raised_post_deletion"
                /\ UNCHANGED <<deletion_anomalies, all_anomalies>>
    /\ UNCHANGED <<files, processed_dir_exists, now, timeline_json, live_timeline_json,
                   evidence_data, gap_anomalies, temporal_anomalies, data_anomalies,
                   severity_assessment, anomaly_report, report_json>>
    /\ UNCHANGED call_vars

DetectTemporal ==
    /\ pc = "deletions"
    /\ temporal_anomalies' = detect_temporal_inconsistencies(normalized_data, now)
    /\ all_anomalies' = ExtendAnomalies(all_anomalies, temporal_anomalies')
    /\ pc' = "temporal"
    /\ UNCHANGED <<files, processed_dir_exists, now, timeline_json, live_timeline_json,
                   evidence_data, normalized_data, gap_anomalies, deletion_anomalies,
                   data_anomalies, severity_assessment, anomaly_report, report_json>>
    /\ UNCHANGED call_vars

\* detect_temporal_inconsistencies called on the normalised evidence by
\* itself, with no detector run before it.
DetectTemporalAlone ==
    /\ pc = "normalized"
    /\ temporal_anomalies' = detect_temporal_inconsistencies(normalized_data, now)
    /\ pc' = "temporal_alone"
    /\ UNCHANGED <<files, processed_dir_exists, now, timeline_json, live_timeline_json,
                   evidence_data, normalized_data, gap_anomalies, deletion_anomalies,
                   data_anomalies, all_anomalies, severity_assessment,
                   anomaly_report, report_json>>
    /\ UNCHANGED call_vars

DetectData ==
    /\ pc = "temporal"
    /\ data_anomalies' = detect_data_inconsistencies(normalized_data, now)
    /\ all_anomalies' = ExtendAnomalies(all_anomalies, data_anomalies')
    /\ pc' = "data"
    /\ UNCHANGED <<files, processed_dir_exists, now, timeline_json, live_timeline_json,
                   evidence_data, normalized_data, gap_anomalies, deletion_anomalies,
                   temporal_anomalies, severity_assessment, anomaly_report, report_json>>
    /\ UNCHANGED call_vars

\* detect_data_inconsistencies called on the normalised evidence by itself,
\* with no detector run before it.
DetectDataAlone ==
    /\ pc = "normalized"
    /\ data_anomalies' = detect_data_inconsistencies(normalized_data, now)
    /\ pc' = "data_alone"
    /\ UNCHANGED <<files, processed_dir_exists, now, timeline_json, live_timeline_json,
                   evidence_data, normalized_data, gap_anomalies, deletion_anomalies,
                   temporal_anomalies, all_anomalies, severity_assessment,
                   anomaly_report, report_json>>
    /\ UNCHANGED call_vars

CalculateSeverity ==
    /\ pc = "data"
    /\ severity_assessment' = calculate_anomaly_severity(all_anomalies)
    /\ pc' = "assessed"
    /\ UNCHANGED <<files, processed_dir_exists, now, timeline_json, live_timeline_json,
                   evidence_data, normalized_data, gap_anomalies, deletion_anomalies,
                   temporal_anomalies, data_anomalies, all_anomalies,
                   anomaly_report, report_json>>
    /\ UNCHANGED call_vars

GenerateReport ==
    /\ pc = "assessed"
    /\ IF ReportRaises(all_anomalies)
       THEN pc' = "raised_report" /\ UNCHANGED anomaly_report
       ELSE /\ pc' = "reported"
            /\ anomaly_report' =
                  generate_anomaly_report(all_anomalies, severity_assessment, now)
    /\ UNCHANGED <<files, processed_dir_exists, now, timeline_json, live_timeline_json,
                   evidence_data, normalized_data, gap_anomalies, deletion_anomalies,
                   temporal_anomalies, data_anomalies, all_anomalies,
                   severity_assessment, report_json>>
    /\ UNCHANGED call_vars

\* main after save_anomaly_report returned: it prints the summary, with
\* "Report saved to: <output_file>", and returns normally (exit status 0).
\* save_anomaly_report returns None whether or not the write succeeded.
RunEndedNormally == pc = "done"

SaveReport ==
    /\ pc = "reported"
    /\ report_json' \in SaveOutcomes(report_json, anomaly_report)
    /\ pc' = "done"
    /\ UNCHANGED <<files, processed_dir_exists, now, timeline_json, live_timeline_json,
                   evidence_data, normalized_data, gap_anomalies, deletion_anomalies,
                   temporal_anomalies, data_anomalies, all_anomalies,
                   severity_assessment, anomaly_report>>
    /\ UNCHANGED call_vars

-----------------------------------------------------------------------------
(* anomaly_calls_analysis.py: load_calls, detect_call_anomalies.           *)

\* "if not calls_file.exists(): return []", else json.load of calls.json
load_calls(fs) == IF fs["CALL"].status = "ok" THEN fs["CALL"].recs ELSE <<>>

TIME_GAP_HOURS == 24

\* datetime.strptime(x["timestamp"], "%Y-%m-%d %H:%M:%S"); NoDatetime when
\* it raises: KeyError without the key, TypeError for null, ValueError for
\* a string of another format.
CallTime(call) ==
    IF call.timestamp.kind = "str" THEN ParseTimestamp(call.timestamp.chars)
    ELSE NoDatetime

\* Past the early return every timestamp is parsed, in no try block.
CallAnomaliesRaise(cs) ==
    Len(cs) >= 2 /\ \E i \in DOMAIN cs : CallTime(cs[i]) = NoDatetime

\* sorted(calls, key=lambda x: datetime.strptime(...)): stable.
SortedByCallTime(cs) ==
    LET key(i) == CallTime(cs[i])
        before(j, i) == DtLess(key(j), key(i)) \/ (key(j) = key(i) /\ j < i)
        rank(i) == 1 + Cardinality({j \in DOMAIN cs : before(j, i)})
    IN  [r \in DOMAIN cs |-> cs[CHOOSE i \in DOMAIN cs : rank(i) = r]]

\* "gap_hours >= TIME_GAP_HOURS" with gap_hours = total_seconds() / 3600
IsLargeGap(t1, t2) == TotalSeconds(DtSub(t2, t1)) >= TIME_GAP_HOURS * 3600

\* int(gap_hours)
GapHours(t1, t2) == TotalSeconds(DtSub(t2, t1)) \div 3600

\* "time(0, 0) <= call_time <= time(4, 0)"
IsUnusualHour(call_time) ==
    0 <= SecondOfDay(call_time) /\ SecondOfDay(call_time) <= 4 * 3600

\* Rule 1, over the sorted calls.
TemporalGapFindings(calls_sorted) ==
    LET idx == [k \in 1..(Len(calls_sorted) - 1) |-> k + 1]
        Flagged(i) == IsLargeGap(CallTime(calls_sorted[i - 1]), CallTime(calls_sorted[i]))
        flagged == SelectSeq(idx, Flagged)
    IN  [k \in DOMAIN flagged |->
            Anomaly(calls_sorted[flagged[k]].timestamp.chars, "CALL", "temporal_gap",
                    GapHours(CallTime(calls_sorted[flagged[k] - 1]),
                             CallTime(calls_sorted[flagged[k]])),
                    <<>>, <<>>, <<>>)]

\* Rule 2, over the calls as given.
UnusualHourFindings(cs) ==
    LET Unusual(call) == IsUnusualHour(CallTime(call))
        unusual == SelectSeq(cs, Unusual)
    IN  [k \in DOMAIN unusual |->
            Anomaly(unusual[k].timestamp.chars, "CALL", "unusual_hour", 0,
                    <<>>, <<>>, <<>>)]

\* "if len(calls) < 2: return findings" stands before both rules.
detect_call_anomalies(cs) ==
    IF Len(cs) < 2 THEN <<>>
    ELSE TemporalGapFindings(SortedByCallTime(cs)) \o UnusualHourFindings(cs)

\* "2023-06-01 02:00:00"
TS_0601_020000 == <<50, 48, 50, 51, 45, 48, 54, 45, 48, 49, 32, 48, 50, 58, 48, 48, 58, 48, 48>>

\* "2023-06-01 04:00:00"
TS_0601_040000 == <<50, 48, 50, 51, 45, 48, 54, 45, 48, 49, 32, 48, 52, 58, 48, 48, 58, 48, 48>>

\* "2023-06-01 04:00:01"
TS_0601_040001 == <<50, 48, 50, 51, 45, 48, 54, 45, 48, 49, 32, 48, 52, 58, 48, 48, 58, 48, 49>>

CallRec(ts) == Rec(ts, JStr(SourceChars("CALL")), JStr(STR_created), JStr(STR_a))

\* Records of calls.json: calls in, at the end of and just after the hours
\* 00:00-04:00, calls 24 and 23 hours apart, a timestamp of another format
\* and a record without timestamp.
CallPool ==
    {CallRec(JStr(TS_0601_020000)), CallRec(JStr(TS_0601_040000)),
     CallRec(JStr(TS_0601_040001)), CallRec(JStr(TS_0601_100000)),
     CallRec(JStr(TS_0602_100000)), CallRec(JStr(TS_0603_090000)),
     CallRec(JStr(TS_slashes)), CallRec(JAbsent)}

\* load_calls has no try block: json.load raising ends main.
LoadCalls ==
    /\ call_pc = "start"
    /\ IF files["CALL"].status = "malformed"
       THEN call_pc' = "raised_load" /\ UNCHANGED calls
       ELSE call_pc' = "loaded" /\ calls' = load_calls(files)
    /\ files' = OpenedForReading(files)
    /\ UNCHANGED <<processed_dir_exists, now, timeline_json, live_timeline_json, pc,
                   evidence_data, normalized_data, gap_anomalies, deletion_anomalies,
                   temporal_anomalies, data_anomalies, all_anomalies,
                   severity_assessment, anomaly_report, report_json, findings>>

DetectCallAnomalies ==
    /\ call_pc = "loaded"
    /\ IF CallAnomaliesRaise(calls)
       THEN call_pc' = "raised_detect" /\ UNCHANGED findings
       ELSE call_pc' = "detected" /\ findings' = detect_call_anomalies(calls)
    /\ UNCHANGED <<files, processed_dir_exists, now, timeline_json, live_timeline_json,
                   pc, evidence_data, normalized_data, gap_anomalies, deletion_anomalies,
                   temporal_anomalies, data_anomalies, all_anomalies,
                   severity_assessment, anomaly_report, report_json, calls>>

-----------------------------------------------------------------------------
(* Specifications.                                                         *)

\* The state of a run before main and the timeline builders start.
InitRun ==
    /\ now \in NowPool
    /\ timeline_json = NoTimeline
    /\ live_timeline_json = NoTimeline
    /\ pc = "start"
    /\ evidence_data = EmptyEvidence
    /\ normalized_data = EmptyEvidence
    /\ gap_anomalies = <<>>
    /\ deletion_anomalies = <<>>
    /\ temporal_anomalies = <<>>
    /\ data_anomalies = <<>>
    /\ all_anomalies = <<>>
    /\ severity_assessment = NoAssessment
    /\ anomaly_report = NoReport
    /\ report_json = ReportFile("absent", NoReport)
    /\ call_pc = "start"
    /\ calls = <<>>
    /\ findings = <<>>

NextTimeline == build_unified_timeline \/ build_live_timeline

NextMain ==
    \/ LoadEvidence
    \/ NormalizeTimestamps
    \/ DetectTimestampGaps
    \/ DetectPostDeletion
    \/ DetectTemporal
    \/ DetectData
    \/ CalculateSeverity
    \/ GenerateReport
    \/ SaveReport

NextReport == CalculateSeverity \/ GenerateReport \/ SaveReport

Init == InitFiles(MainPool, {"SMS", "CALL"}, {"SMS"}) /\ InitRun

Next == NextMain

\* A whole run of anomaly_analysis.main.
Spec == Init /\ [][Next]_vars

\* The timeline builders on every input of TimelinePool.
InitTimeline == InitFiles(TimelinePool, SourceSet, {"CALL"}) /\ InitRun

SpecTimeline == InitTimeline /\ [][NextTimeline]_vars

\* main on the inputs of the gap rule.
InitGap == InitFiles(GapPool, {"SMS", "CALL"}, {"SMS"}) /\ InitRun

SpecGap == InitGap /\ [][NextMain]_vars

\* main on the inputs of the post-deletion rule.
InitDeletion == InitFiles(DeletionPool, {"SMS", "CALL"}, {"SMS"}) /\ InitRun

SpecDeletion == InitDeletion /\ [][NextMain]_vars

\* main, and the data-integrity rule by itself, on the rule's inputs.
InitData == InitFiles(DataPool, {"SMS", "CALL"}, {"SMS"}) /\ InitRun

NextData ==
    \/ LoadEvidence
    \/ NormalizeTimestamps
    \/ DetectTimestampGaps
    \/ DetectPostDeletion
    \/ DetectTemporal
    \/ DetectData
    \/ DetectDataAlone
    \/ CalculateSeverity
    \/ GenerateReport
    \/ SaveReport

SpecData == InitData /\ [][NextData]_vars

\* main, and the future-timestamp rule by itself, on the rule's inputs.
InitTemporal == InitFiles(TemporalPool, {"SMS", "CALL"}, {"SMS"}) /\ InitRun

NextTemporal ==
    \/ LoadEvidence
    \/ NormalizeTimestamps
    \/ DetectTimestampGaps
    \/ DetectPostDeletion
    \/ DetectTemporal
    \/ DetectTemporalAlone
    \/ DetectData
    \/ CalculateSeverity
    \/ GenerateReport
    \/ SaveReport

SpecTemporal == InitTemporal /\ [][NextTemporal]_vars

\* main and the timeline builders on evidence files of which any one may be
\* missing or malformed (that of MEDIA holds no record).
InitLoad == InitFiles(LoadPool, {"SMS", "CALL", "APP"}, SourceSet) /\ InitRun

NextLoad ==
    \/ build_unified_timeline
    \/ build_live_timeline
    \/ LoadEvidence
    \/ NormalizeTimestamps
    \/ DetectTimestampGaps
    \/ DetectPostDeletion
    \/ DetectTemporal
    \/ DetectData
    \/ CalculateSeverity
    \/ GenerateReport
    \/ SaveReport

SpecLoad == InitLoad /\ [][NextLoad]_vars

\* The classifier, the assembler and the writer on any anomaly list.
InitSeverity ==
    /\ files = [s \in SourceSet |-> File("ok", <<>>)]
    /\ processed_dir_exists = TRUE
    /\ now \in NowPool
    /\ timeline_json = NoTimeline
    /\ live_timeline_json = NoTimeline
    /\ pc = "data"
    /\ evidence_data = EmptyEvidence
    /\ normalized_data = EmptyEvidence
    /\ gap_anomalies = <<>>
    /\ deletion_anomalies = <<>>
    /\ temporal_anomalies = <<>>
    /\ data_anomalies = <<>>
    /\ all_anomalies \in SeqsUpTo(AnomalyPool, MaxAnoms)
    /\ severity_assessment = NoAssessment
    /\ anomaly_report = NoReport
    /\ report_json = ReportFile("absent", NoReport)
    /\ call_pc = "start"
    /\ calls = <<>>
    /\ findings = <<>>

SpecSeverity == InitSeverity /\ [][NextReport]_vars

\* anomaly_calls_analysis.main up to the findings, on every calls.json of
\* CallPool.
InitCalls == InitFiles(CallPool, {"CALL"}, {"CALL"}) /\ InitRun

NextCalls == LoadCalls \/ DetectCallAnomalies

SpecCalls == InitCalls /\ [][NextCalls]_vars

-----------------------------------------------------------------------------
(* Properties of the merged timeline (SpecTimeline).                       *)

\* A timeline record's timestamp parses as YYYY-MM-DD HH:MM:SS.
TimelineValid(e) ==
    e.timestamp.kind = "str" /\ ParseTimestamp(e.timestamp.chars) # NoDatetime

TimelineInstant(e) == ParseTimestamp(e.timestamp.chars)

\* The records of all source files, in the order SMS, CALL, MEDIA, APP.
InputConcat ==
    files["SMS"].recs \o files["CALL"].recs \o files["MEDIA"].recs \o files["APP"].recs

Fields3(e) == <<e.timestamp, e.type, e.details>>

Fields4(e) == <<e.timestamp, e.source, e.type, e.details>>

Project3(list) == [i \in DOMAIN list |-> Fields3(list[i])]

Project4(list) == [i \in DOMAIN list |-> Fields4(list[i])]

\* a and b hold the same elements, each as often.
SameBag(a, b) ==
    /\ Len(a) = Len(b)
    /\ \A x \in {a[i] : i \in DOMAIN a} \cup {b[i] : i \in DOMAIN b} :
          Cardinality({i \in DOMAIN a : a[i] = x}) = Cardinality({i \in DOMAIN b : b[i] = x})

\* For i < j with both timestamps valid, the instant of i is not after that
\* of j. Pairs with an invalid timestamp are left to InvalidLast.
OrderedByInstant(tl) ==
    \A i, j \in DOMAIN tl :
        (i < j /\ TimelineValid(tl[i]) /\ TimelineValid(tl[j])) =>
            ~DtLess(TimelineInstant(tl[j]), TimelineInstant(tl[i]))

\* C1: in the timeline either builder writes, for all positions i < j either
\* both records have invalid timestamps or the parsed instant of i is at
\* most that of j; stated here for the pairs of valid timestamps only, zero
\* padded or not.
C1_OrderingInvariant ==
    /\ OrderedByInstant(timeline_json.events)
    /\ OrderedByInstant(live_timeline_json.events)

InvalidOf(list) ==
    LET Invalid(e) == ~TimelineValid(e)
    IN  SelectSeq(list, Invalid)

InvalidLast(tl) ==
    \A i, j \in DOMAIN tl : i < j => ~(~TimelineValid(tl[i]) /\ TimelineValid(tl[j]))

\* C2: in the timeline either builder writes, every invalid-timestamp record
\* stands after every valid one, and the invalid records are all there, in
\* their insertion order.
C2_InvalidLast ==
    /\ timeline_json.written =>
          /\ InvalidLast(timeline_json.events)
          /\ Project3(InvalidOf(timeline_json.events)) = Project3(InvalidOf(InputConcat))
    /\ live_timeline_json.written =>
          /\ InvalidLast(live_timeline_json.events)
          /\ Project3(InvalidOf(live_timeline_json.events)) = Project3(InvalidOf(InputConcat))

\* C3: the timeline either builder writes is as long as the source files
\* have records in all, and holds the same records (build_unified_timeline
\* may have filled in a record's source).
C3_NoDataLoss ==
    /\ timeline_json.written =>
          /\ Len(timeline_json.events) = Len(InputConcat)
          /\ SameBag(Project3(timeline_json.events), Project3(InputConcat))
    /\ live_timeline_json.written =>
          /\ Len(live_timeline_json.events) = Len(InputConcat)
          /\ SameBag(Project4(live_timeline_json.events), Project4(InputConcat))

\* Both timelines are written from three records of two sources, one of them
\* with an invalid timestamp, while another source's file is unusable.
C3_Witness ==
    /\ timeline_json.written /\ live_timeline_json.written
    /\ Len(InputConcat) >= 3
    /\ files["SMS"].recs # <<>> /\ files["APP"].recs # <<>>
    /\ files["CALL"].status # "ok"
    /\ \E i \in DOMAIN InputConcat : ~TimelineValid(InputConcat[i])

-----------------------------------------------------------------------------
(* Properties of detect_timestamp_gaps (SpecGap).                          *)

\* detect_timestamp_gaps has just returned: gap_anomalies holds its findings
\* (no later step writes to it).
GapsReturned == pc = "gaps"

\* The instants of the valid timestamps of a source's loaded records.
ValidInstants(s) ==
    {ParseTimestamp(evidence_data[s][i].timestamp.chars) :
        i \in {j \in DOMAIN evidence_data[s] : evidence_data[s][j].timestamp.kind = "str"}}
    \ {NoDatetime}

\* p and t are neighbours among the instants V, p the earlier.
Consecutive(V, p, t) ==
    /\ p \in V /\ t \in V
    /\ DtLess(p, t)
    /\ \A u \in V : ~(DtLess(p, u) /\ DtLess(u, t))

MoreThanADay(p, t) ==
    LET elapsed == DtSub(t, p)
    IN  elapsed.days > 1 \/ (elapsed.days = 1 /\ elapsed.seconds > 0)

ExactlyADay(p, t) ==
    LET elapsed == DtSub(t, p)
    IN  elapsed.days = 1 /\ elapsed.seconds = 0

\* The gap findings of a source, in the order they were emitted.
GapFindings(s) ==
    LET OfSource(a) == a.source = s
    IN  SelectSeq(gap_anomalies, OfSource)

\* The two instants a gap finding names.
Boundary(a) == <<ParseTimestamp(a.details.a), ParseTimestamp(a.details.b)>>

\* C5: per source, detect_timestamp_gaps emits exactly one timestamp_gap
\* finding for each pair of neighbouring valid instants more than 24 hours
\* apart and no other finding: none for a pair less than 24 hours apart,
\* none for a source with fewer than 2 valid timestamps, none that names an
\* invalid timestamp.
C5_GapRule ==
    GapsReturned =>
        /\ \A i \in DOMAIN gap_anomalies :
              gap_anomalies[i].type = "timestamp_gap" /\ gap_anomalies[i].source \in SourceSet
        /\ \A s \in SourceSet :
              LET V == ValidInstants(s)
                  expected == {pt \in V \X V :
                                  Consecutive(V, pt[1], pt[2]) /\ MoreThanADay(pt[1], pt[2])}
                  found == GapFindings(s)
              IN  /\ Len(found) = Cardinality(expected)
                  /\ {Boundary(found[i]) : i \in DOMAIN found} = expected
                  /\ Cardinality(V) < 2 => found = <<>>

\* SMS holds, out of order, records 23h59m59s apart and a third one two days
\* later: the only finding is the one for the later pair.
C5_Witness ==
    /\ GapsReturned
    /\ Len(evidence_data["SMS"]) = 3
    /\ evidence_data["SMS"][1].timestamp = JStr(TS_64_unpadded)
    /\ ValidInstants("SMS") = {DT(2023, 6, 1, 10, 0, 0), DT(2023, 6, 2, 9, 59, 59),
                               DT(2023, 6, 4, 10, 0, 0)}
    /\ Len(gap_anomalies) = 1
    /\ Boundary(gap_anomalies[1]) = <<DT(2023, 6, 2, 9, 59, 59), DT(2023, 6, 4, 10, 0, 0)>>
    /\ gap_anomalies[1].details.n = 2

\* C6 as stated: neighbouring valid instants of a source exactly 24h00m00s
\* apart are flagged with a timestamp_gap finding.
C6_ExactDayFlagged ==
    GapsReturned =>
        \A s \in SourceSet :
            LET V == ValidInstants(s)
                found == GapFindings(s)
            IN  \A p, t \in V :
                    (Consecutive(V, p, t) /\ ExactlyADay(p, t)) =>
                        \E i \in DOMAIN found : Boundary(found[i]) = <<p, t>>

\* C6: neighbouring valid instants of a source exactly 24h00m00s apart are
\* not flagged: no timestamp_gap finding names a pair exactly a day apart
\* (the comparison is >).
C6_ExactDayNotFlagged ==
    GapsReturned =>
        \A i \in DOMAIN gap_anomalies :
            ~ExactlyADay(Boundary(gap_anomalies[i])[1], Boundary(gap_anomalies[i])[2])

\* SMS holds two records exactly 24 hours apart and a third 1 second later
\* still: there is no finding.
C6_Witness ==
    /\ GapsReturned
    /\ ValidInstants("SMS") = {DT(2023, 6, 1, 10, 0, 0), DT(2023, 6, 2, 10, 0, 0),
                               DT(2023, 6, 2, 10, 0, 1)}
    /\ Consecutive(ValidInstants("SMS"), DT(2023, 6, 1, 10, 0, 0), DT(2023, 6, 2, 10, 0, 0))
    /\ gap_anomalies = <<>>

-----------------------------------------------------------------------------
(* Properties of detect_post_deletion_activity (SpecDeletion).             *)

\* main has called detect_post_deletion_activity, which returned or raised.
PostDeletionCalled == pc \in {"deletions", "raised_post_deletion"}

\* The instant of every loaded record of a source (NoDatetime: invalid).
InstantsOf(s) ==
    [i \in DOMAIN evidence_data[s] |->
        IF evidence_data[s][i].timestamp.kind = "str"
        THEN ParseTimestamp(evidence_data[s][i].timestamp.chars) ELSE NoDatetime]

\* The post-deletion findings of a source.
PostDeletionFindings(s) ==
    LET OfSource(a) == a.source = s /\ a.type = "post_deletion_activity"
    IN  SelectSeq(deletion_anomalies, OfSource)

\* C7: for each record of a source with type "deleted" and a valid
\* timestamp there is a post_deletion_activity finding if and only if the
\* source holds a record with a valid, strictly later timestamp and a type
\* other than "deleted", and the finding's count is the number of such
\* records; [deleted @10:00, created @10:05] gives one finding with count 1.
C7_PostDeletionRule ==
    PostDeletionCalled =>
        \A s \in SourceSet :
            LET inst == InstantsOf(s)
                recs == evidence_data[s]
                found == PostDeletionFindings(s)
                deletions == {i \in DOMAIN recs :
                                recs[i].type = JStr(STR_deleted) /\ inst[i] # NoDatetime}
                after(i) == Cardinality({j \in DOMAIN recs :
                                /\ inst[j] # NoDatetime
                                /\ DtLess(inst[i], inst[j])
                                /\ recs[j].type # JStr(STR_deleted)})
                reported == {i \in deletions : after(i) > 0}
            IN  /\ Len(found) = Cardinality(reported)
                /\ \A i \in reported :
                      Cardinality({k \in DOMAIN found :
                                      /\ ParseTimestamp(found[k].details.a) = inst[i]
                                      /\ found[k].details.n = after(i)})
                        = Cardinality({j \in reported : inst[j] = inst[i]})

-----------------------------------------------------------------------------
(* Properties of detect_data_inconsistencies (SpecData).                   *)

\* detect_data_inconsistencies has just returned.
DataReturned == pc \in {"data", "data_alone"}

DataFindings(s, ty) ==
    LET Wanted(a) == a.source = s /\ a.type = ty
    IN  SelectSeq(data_anomalies, Wanted)

\* The (timestamp, type, details) combination of a record, as JSON values.
Combination(r) == <<r.timestamp, r.type, r.details>>

\* C8: per source there is exactly one duplicate_event finding for each
\* distinct (timestamp, type, details) combination that occurs more than
\* once, with its occurrence count, and none for a combination that occurs
\* once; records of different sources are not duplicates of each other.
C8_DuplicateRule ==
    DataReturned =>
        \A s \in SourceSet :
            LET recs == evidence_data[s]
                found == DataFindings(s, "duplicate_event")
                combos == {Combination(recs[i]) : i \in DOMAIN recs}
                occurs(c) == Cardinality({i \in DOMAIN recs : Combination(recs[i]) = c})
                repeated == {c \in combos : occurs(c) > 1}
            IN  /\ Len(found) = Cardinality(repeated)
                /\ \A n \in 2..Len(recs) :
                      Cardinality({k \in DOMAIN found : found[k].details.n = n})
                        = Cardinality({c \in repeated : occurs(c) = n})

\* The fields a record lacks.
AbsentFields(r) == {f \in {"timestamp", "source", "type", "details"} : r[f].kind = "absent"}

\* C9: for every record that lacks at least one of timestamp, source, type,
\* details there is exactly one missing_fields finding, which lists exactly
\* the fields the record lacks, and there is none for a record with all
\* four; records with invalid timestamps included.
C9_MissingFieldRule ==
    DataReturned =>
        \A s \in SourceSet :
            LET recs == evidence_data[s]
                found == DataFindings(s, "missing_fields")
                listed(k) == {found[k].details.fields[x] : x \in DOMAIN found[k].details.fields}
                offending == {i \in DOMAIN recs : AbsentFields(recs[i]) # {}}
            IN  /\ Len(found) = Cardinality(offending)
                /\ \A k \in DOMAIN found :
                      Len(found[k].details.fields) = Cardinality(listed(k))
                /\ \A F \in SUBSET {"timestamp", "source", "type", "details"} :
                      Cardinality({k \in DOMAIN found : listed(k) = F})
                        = Cardinality({i \in offending : AbsentFields(recs[i]) = F})

\* CALL holds a complete record, one that lacks only details and, with a
\* timestamp that does not parse, one that lacks source and details: two
\* findings, naming [details] and [source, details].
C9_Witness ==
    /\ DataReturned
    /\ Len(evidence_data["CALL"]) = 3
    /\ \E i \in 1..3 : AbsentFields(evidence_data["CALL"][i]) = {}
    /\ \E i \in 1..3 : /\ evidence_data["CALL"][i].timestamp = JStr(TS_slashes)
                       /\ AbsentFields(evidence_data["CALL"][i]) = {"source", "details"}
    /\ Len(DataFindings("CALL", "missing_fields")) = 2
    /\ \E k \in 1..2 : DataFindings("CALL", "missing_fields")[k].details.fields = <<"details">>
    /\ \E k \in 1..2 :
          DataFindings("CALL", "missing_fields")[k].details.fields = <<"source", "details">>

-----------------------------------------------------------------------------
(* Properties of calculate_anomaly_severity (SpecSeverity).                *)

\* calculate_anomaly_severity has just returned.
SeverityReturned == pc = "assessed"

\* How many of the anomalies have one of the types.
CountOfTypes(types) ==
    Cardinality({i \in DOMAIN all_anomalies : all_anomalies[i].type \in types})

\* C10: every anomaly is counted in exactly one tier: future_timestamp in
\* CRITICAL, post_deletion_activity in HIGH, timestamp_gap and missing_fields
\* in MEDIUM, duplicate_event and any unrecognized or absent type in LOW;
\* one future_timestamp and two timestamp_gap give CRITICAL 1, MEDIUM 2,
\* HIGH 0, LOW 0, total 3.
C10_SeverityLookup ==
    SeverityReturned =>
        LET dist == severity_assessment.severity_distribution
            known == {"future_timestamp", "post_deletion_activity", "timestamp_gap",
                      "missing_fields"}
        IN  /\ DOMAIN dist = {"CRITICAL", "HIGH", "MEDIUM", "LOW"}
            /\ dist["CRITICAL"] = CountOfTypes({"future_timestamp"})
            /\ dist["HIGH"] = CountOfTypes({"post_deletion_activity"})
            /\ dist["MEDIUM"] = CountOfTypes({"timestamp_gap", "missing_fields"})
            /\ dist["LOW"] = Len(all_anomalies) - CountOfTypes(known)
            /\ severity_assessment.total_anomalies = Len(all_anomalies)
            /\ (/\ Len(all_anomalies) = 3
                /\ CountOfTypes({"future_timestamp"}) = 1
                /\ CountOfTypes({"timestamp_gap"}) = 2)
               => /\ dist = [CRITICAL |-> 1, HIGH |-> 0, MEDIUM |-> 2, LOW |-> 0]
                  /\ severity_assessment.total_anomalies = 3

\* The classifier has counted an anomaly without a type, one of a type the
\* table does not know and a timestamp_gap: LOW 2, MEDIUM 1.
C10_Witness ==
    /\ SeverityReturned
    /\ Len(all_anomalies) = 3
    /\ CountOfTypes({KeyAbsent}) = 1
    /\ CountOfTypes({"unusual_hour"}) = 1
    /\ CountOfTypes({"timestamp_gap"}) = 1
    /\ severity_assessment.severity_distribution =
          [CRITICAL |-> 0, HIGH |-> 0, MEDIUM |-> 1, LOW |-> 2]

-----------------------------------------------------------------------------
(* Properties of detect_temporal_inconsistencies (SpecTemporal).           *)

\* detect_temporal_inconsistencies has just returned.
TemporalReturned == pc \in {"temporal", "temporal_alone"}

\* Instant a is strictly after instant b, field by field.
StrictlyAfter(a, b) ==
    LET x == <<a.year, a.month, a.day, a.hour, a.minute, a.second>>
        y == <<b.year, b.month, b.day, b.hour, b.minute, b.second>>
    IN  \E k \in 1..6 : x[k] > y[k] /\ \A j \in 1..(k - 1) : x[j] = y[j]

-----------------------------------------------------------------------------
(* Properties of normalize_timestamps (Spec).                              *)

\* main has called normalize_timestamps, which returned or raised, and no
\* detector has run yet.
NormalizeCalled == pc \in {"normalized", "raised_normalize"}

\* The timestamp of a record parses against "%Y-%m-%d %H:%M:%S".
Parses(r) == r.timestamp.kind = "str" /\ ParseTimestamp(r.timestamp.chars) # NoDatetime

\* C12: normalize_timestamps outputs, for every source, one record per input
\* record in the same position, with the four original fields unchanged;
\* timestamp_valid is true iff the timestamp parses, and parsed_timestamp is
\* then that instant and otherwise no instant.
C12_NormalizerContract ==
    NormalizeCalled =>
        \A s \in SourceSet :
            /\ Len(normalized_data[s]) = Len(evidence_data[s])
            /\ \A i \in DOMAIN evidence_data[s] :
                  LET r == evidence_data[s][i]
                      n == normalized_data[s][i]
                  IN  /\ Fields4(n) = Fields4(r)
                      /\ n.timestamp_valid = Parses(r)
                      /\ n.parsed_timestamp =
                            (IF Parses(r) THEN ParseTimestamp(r.timestamp.chars)
                             ELSE NoDatetime)

\* C13: normalize_timestamps raises for no record, whatever its timestamp is
\* (absent, a wrongly formatted string, null): it completes and every record
\* whose timestamp does not parse is tagged timestamp_valid = false.
C13_NeverRaises ==
    /\ pc # "raised_normalize"
    /\ pc = "normalized" =>
          \A s \in SourceSet : \A i \in DOMAIN evidence_data[s] :
              ~Parses(evidence_data[s][i]) =>
                  /\ i \in DOMAIN normalized_data[s]
                  /\ ~normalized_data[s][i].timestamp_valid

-----------------------------------------------------------------------------
(* Properties of the rule battery as main runs it.                         *)

\* The missing_fields findings main has collected for a source.
MissingFieldFindings(s) ==
    LET Wanted(a) == a.source = s /\ a.type = "missing_fields"
    IN  SelectSeq(data_anomalies, Wanted)

\* C14: with invalid-timestamp records in a source, alone or mixed with
\* valid ones, the sequence gap, post-deletion, future-timestamp,
\* data-integrity completes without error, and the invalid records take
\* part in the missing-field check.
C14_BatteryCompletes ==
    /\ pc # "raised_post_deletion"
    /\ pc = "data" =>
          \A s \in SourceSet :
              Len(MissingFieldFindings(s))
                = Cardinality({i \in DOMAIN evidence_data[s] :
                                  AbsentFields(evidence_data[s][i]) # {}})

\* A detector called by main has just returned.
DetectorReturned == pc \in {"gaps", "deletions", "temporal", "data"}

\* C15: after each detector returns, the normalized evidence passed to it is
\* unchanged: the per-source lists, their order and every record's fields
\* are those normalize_timestamps returned.
C15_NoDetectorMutates ==
    DetectorReturned => normalized_data = normalize_timestamps(evidence_data)

\* The place of a finding's rule in the order Gap, Post-Deletion,
\* Future-Timestamp, Data-Integrity.
RuleRank(a) ==
    CASE a.type = "timestamp_gap"          -> 1
      [] a.type = "post_deletion_activity" -> 2
      [] a.type = "future_timestamp"       -> 3
      [] OTHER                             -> 4

\* C16: the combined finding list is the concatenation of the outputs of
\* the rules in the order Gap, Post-Deletion, Future-Timestamp,
\* Data-Integrity, after each rule and in the list the classifier and the
\* report get: every finding of an earlier rule precedes every finding of a
\* later one.
C16_RuleOrder ==
    /\ pc = "gaps" => all_anomalies = gap_anomalies
    /\ pc = "deletions" => all_anomalies = gap_anomalies \o deletion_anomalies
    /\ pc = "temporal" =>
          all_anomalies = gap_anomalies \o deletion_anomalies \o temporal_anomalies
    /\ pc \in {"data", "assessed", "reported", "raised_report", "done"} =>
          /\ all_anomalies = gap_anomalies \o deletion_anomalies
                               \o temporal_anomalies \o data_anomalies
          /\ \A i, j \in DOMAIN all_anomalies :
                i < j => RuleRank(all_anomalies[i]) <= RuleRank(all_anomalies[j])
    /\ pc \in {"reported", "done"} => anomaly_report.findings = all_anomalies

\* The report holds findings of all four rules.
C16_Witness ==
    /\ pc = "reported"
    /\ gap_anomalies # <<>> /\ deletion_anomalies # <<>>
    /\ temporal_anomalies # <<>> /\ data_anomalies # <<>>
    /\ Len(anomaly_report.findings) >= 4

-----------------------------------------------------------------------------
(* Properties of the loaders (SpecLoad).                                   *)

\* The records of a source whose file can be read, none otherwise.
ReadableRecords(s) ==
    IF processed_dir_exists /\ files[s].status = "ok" THEN files[s].recs ELSE <<>>

AllReadableRecords ==
    ReadableRecords("SMS") \o ReadableRecords("CALL")
    \o ReadableRecords("MEDIA") \o ReadableRecords("APP")

\* C17: a source whose file is missing or cannot be loaded is treated as
\* empty and every source whose file is readable is loaded completely, by
\* load_processed_evidence and by both timeline builders; main goes on to
\* analyse what was loaded and is not aborted.
C17_LoadIsolation ==
    /\ pc # "start" => \A s \in SourceSet : evidence_data[s] = ReadableRecords(s)
    /\ pc \notin {"start", "loaded"} =>
          /\ pc \notin {"raised_normalize", "raised_post_deletion", "raised_report"}
          /\ \A s \in SourceSet : Len(normalized_data[s]) = Len(ReadableRecords(s))
    /\ timeline_json.written =>
          SameBag(Project3(timeline_json.events), Project3(AllReadableRecords))
    /\ live_timeline_json.written =>
          SameBag(Project4(live_timeline_json.events), Project4(AllReadableRecords))

\* The file of SMS is malformed; the records of CALL and APP are loaded,
\* analysed to the end and in both timelines.
C17_Witness ==
    /\ files["SMS"].status = "malformed"
    /\ files["CALL"].recs # <<>> /\ files["APP"].recs # <<>>
    /\ pc = "done"
    /\ evidence_data["CALL"] = files["CALL"].recs
    /\ evidence_data["APP"] = files["APP"].recs
    /\ timeline_json.written /\ live_timeline_json.written
    /\ Len(timeline_json.events) = Len(files["CALL"].recs) + Len(files["APP"].recs)

-----------------------------------------------------------------------------
(* Properties of save_anomaly_report (SpecSeverity).                       *)

\* C18: the persisted report is at all times absent or a complete report; a
\* write that fails part-way leaves no truncated or partial file.
C18_AtomicPersistence ==
    /\ report_json.state \in {"absent", "complete"}
    /\ report_json.state = "complete" => report_json.report = anomaly_report

\* C19: when writing the report fails, the run does not end normally
\* reporting the artifact as saved: a run that ends normally has persisted
\* the complete report.
C19_FailureSurfaced ==
    RunEndedNormally => report_json = ReportFile("complete", anomaly_report)

-----------------------------------------------------------------------------
(* Properties of generate_anomaly_report (SpecSeverity).                   *)

RECURSIVE SumOver(_, _)
\* The sum of the counts f holds for the keys of S.
SumOver(f, S) ==
    IF S = {} THEN 0
    ELSE LET x == CHOOSE y \in S : TRUE
         IN  f[x] + SumOver(f, S \ {x})

-----------------------------------------------------------------------------
(* Properties of timeline_order and of tied records (SpecTimeline).        *)

\* The event at position k carries timeline_order = k.
NumberedByPosition(tl) == \A k \in DOMAIN tl : tl[k].timeline_order = k

\* C21: in the timeline either builder writes, the event at position k
\* (1-based) carries timeline_order = k, so that the values of the N events
\* are exactly 1..N, each once.
C21_TimelineOrderBijection ==
    /\ timeline_json.written =>
          /\ NumberedByPosition(timeline_json.events)
          /\ {timeline_json.events[k].timeline_order : k \in DOMAIN timeline_json.events}
                 = 1..Len(InputConcat)
    /\ live_timeline_json.written =>
          /\ NumberedByPosition(live_timeline_json.events)
          /\ {live_timeline_json.events[k].timeline_order :
                  k \in DOMAIN live_timeline_json.events} = 1..Len(InputConcat)

\* Both timelines are written from three records of two sources, and the
\* sort has moved a record: the live builder's numbering before the sort is
\* not the one it writes.
C21_Witness ==
    /\ timeline_json.written /\ live_timeline_json.written
    /\ Len(InputConcat) = 3
    /\ files["SMS"].recs # <<>> /\ files["MEDIA"].recs # <<>>
    /\ Project3(timeline_json.events) # Project3(InputConcat)
    /\ LiveLoad(files, 1, <<>>) # live_timeline_json.events

\* The records of list whose timestamp gives the sort key `key`, in order.
TiedWith(list, key) ==
    LET Tied(e) == TimestampKey(e) = key
    IN  SelectSeq(list, Tied)

\* The records of all source files in the order SMS, CALL, MEDIA, APP, as
\* build_unified_timeline holds them: a record without source has its
\* file's source.
SourcedInput ==
    [i \in DOMAIN files["SMS"].recs |-> WithSource(files["SMS"].recs[i], "SMS")]
    \o [i \in DOMAIN files["CALL"].recs |-> WithSource(files["CALL"].recs[i], "CALL")]
    \o [i \in DOMAIN files["MEDIA"].recs |-> WithSource(files["MEDIA"].recs[i], "MEDIA")]
    \o [i \in DOMAIN files["APP"].recs |-> WithSource(files["APP"].recs[i], "APP")]

\* The records of tl with one and the same timestamp stand as in input.
TiesInInputOrder(tl, input) ==
    \A key \in {TimestampKey(input[i]) : i \in DOMAIN input} :
        Project4(TiedWith(tl, key)) = Project4(TiedWith(input, key))

\* C22: in the timeline either builder writes, the records with equal
\* timestamps (the same timestamp value; a record without timestamp counts
\* as one with the empty timestamp) stand in source order SMS, CALL, MEDIA,
\* APP and, within one source, in the order of their file.
C22_TieBreakStability ==
    /\ timeline_json.written => TiesInInputOrder(timeline_json.events, SourcedInput)
    /\ live_timeline_json.written => TiesInInputOrder(live_timeline_json.events, InputConcat)

\* Both timelines are written from three records of which two, of different
\* sources and different in their details, have the same valid timestamp,
\* and the sort has moved a record.
C22_Witness ==
    /\ timeline_json.written /\ live_timeline_json.written
    /\ Len(InputConcat) = 3
    /\ files["SMS"].recs # <<>> /\ files["APP"].recs # <<>>
    /\ \E x \in DOMAIN files["SMS"].recs, y \in DOMAIN files["APP"].recs :
          /\ files["SMS"].recs[x].timestamp = files["APP"].recs[y].timestamp
          /\ TimelineValid(files["SMS"].recs[x])
          /\ files["SMS"].recs[x].details # files["APP"].recs[y].details
    /\ Project4(timeline_json.events) # Project4(SourcedInput)
    /\ Project4(live_timeline_json.events) # Project4(InputConcat)

-----------------------------------------------------------------------------
(* Properties of a run on empty evidence (Spec).                           *)

\* The sources whose evidence list is empty.
EmptySources == {s \in SourceSet : evidence_data[s] = <<>>}

\* No finding of the list is of an empty source.
NoneOfEmptySources(found) ==
    \A i \in DOMAIN found : found[i].source \notin EmptySources

\* C23: a source whose evidence list is empty gets no finding from any of
\* the four detectors, and a detector or the report assembler raises only
\* when some source has records; when all four sources are empty the
\* classifier counts 0 in total and in every tier and the report holds no
\* finding and total_anomalies 0.
C23_EmptyEvidenceNoOp ==
    /\ pc \in {"gaps", "deletions", "temporal", "data", "assessed", "reported", "done"} =>
          NoneOfEmptySources(gap_anomalies)
    /\ pc \in {"deletions", "temporal", "data", "assessed", "reported", "done"} =>
          NoneOfEmptySources(deletion_anomalies)
    /\ pc \in {"temporal", "data", "assessed", "reported", "done"} =>
          NoneOfEmptySources(temporal_anomalies)
    /\ pc \in {"data", "assessed", "reported", "done"} =>
          NoneOfEmptySources(data_anomalies)
    /\ pc \in {"raised_post_deletion", "raised_report"} => EmptySources # SourceSet
    /\ (EmptySources = SourceSet /\ pc \in {"assessed", "reported", "done"}) =>
          /\ severity_assessment.total_anomalies = 0
          /\ \A tier \in Tiers : severity_assessment.severity_distribution[tier] = 0
          /\ severity_assessment.critical_anomalies = 0
          /\ severity_assessment.high_anomalies = 0
    /\ (EmptySources = SourceSet /\ pc \in {"reported", "done"}) =>
          /\ anomaly_report.total_anomalies = 0
          /\ anomaly_report.findings = <<>>
          /\ anomaly_report.severity_assessment = severity_assessment

\* The report is assembled in a run whose four evidence files are empty
\* arrays.
C23_Witness ==
    /\ pc = "reported"
    /\ \A s \in SourceSet : files[s].status = "ok" /\ files[s].recs = <<>>
    /\ EmptySources = SourceSet
    /\ anomaly_report.total_anomalies = 0

-----------------------------------------------------------------------------
(* The evidence store (SpecLoad).                                          *)

\* C24: no step of the loader, the normaliser, the timeline builders, the
\* detectors, the classifier or the report writer creates, changes or
\* deletes an evidence file or the directory that holds them; what the
\* steps write are the two timelines and the analysis report.
C24_EvidenceReadOnly ==
    [][files' = files /\ processed_dir_exists' = processed_dir_exists]_vars

\* Both timelines and the complete report are written from evidence files
\* that hold records.
C24_Witness ==
    /\ timeline_json.written /\ live_timeline_json.written
    /\ pc = "done"
    /\ report_json = ReportFile("complete", anomaly_report)
    /\ files["SMS"].recs # <<>> /\ files["APP"].recs # <<>>
    /\ timeline_json.events # <<>> /\ live_timeline_json.events # <<>>

-----------------------------------------------------------------------------
(* The order of the rules (SpecData).                                      *)

\* C25: the findings a detector returns do not depend on the detectors that
\* ran before it on the same evidence object: what
\* detect_temporal_inconsistencies and detect_data_inconsistencies return
\* in main, after detect_post_deletion_activity, is what they return for the
\* evidence as normalize_timestamps gave it.
C25_NoOrderingDependency ==
    /\ pc = "temporal" =>
          temporal_anomalies =
              detect_temporal_inconsistencies(normalize_timestamps(evidence_data), now)
    /\ pc = "data" =>
          data_anomalies =
              detect_data_inconsistencies(normalize_timestamps(evidence_data), now)

-----------------------------------------------------------------------------
(* Findings per deletion instant (SpecDeletion).                           *)

\* C26: when detect_post_deletion_activity has returned, the number of
\* post_deletion_activity findings of a source is the number of distinct
\* instants of its valid "deleted" records that a valid record of another
\* type follows strictly later, also when several "deleted" records have
\* the same timestamp.
C26_OnePerDeletionInstant ==
    pc = "deletions" =>
        \A s \in SourceSet :
            LET inst == InstantsOf(s)
                recs == evidence_data[s]
                deletions == {i \in DOMAIN recs :
                                recs[i].type = JStr(STR_deleted) /\ inst[i] # NoDatetime}
                Followed(i) == \E j \in DOMAIN recs :
                                  /\ inst[j] # NoDatetime
                                  /\ DtLess(inst[i], inst[j])
                                  /\ recs[j].type # JStr(STR_deleted)
            IN  Len(PostDeletionFindings(s))
                  = Cardinality({inst[i] : i \in {d \in deletions : Followed(d)}})

-----------------------------------------------------------------------------
(* The gap length a finding reports (SpecGap).                             *)

\* C27: every timestamp_gap finding names the two timestamps of a pair of
\* neighbouring valid instants of its source, and the number of days it
\* reports, taken as days of 24 hours, is the time elapsed between the two.
C27_ExactGapLength ==
    GapsReturned =>
        \A s \in SourceSet :
            LET V == ValidInstants(s)
                found == GapFindings(s)
            IN  \A i \in DOMAIN found :
                    LET b == Boundary(found[i])
                    IN  /\ b[1] \in V /\ b[2] \in V
                        /\ Consecutive(V, b[1], b[2])
                        /\ found[i].details.n * 24 * 3600 = TotalSeconds(DtSub(b[2], b[1]))

-----------------------------------------------------------------------------
(* The totals of calculate_anomaly_severity (SpecSeverity).                *)

\* C28: in what calculate_anomaly_severity returns for an anomaly sequence,
\* total_anomalies is the length of the sequence and the sum of the four
\* tier counts, critical_anomalies is the CRITICAL count and high_anomalies
\* the HIGH count; the function returns for every sequence, with or without
\* types it knows.
C28_SeverityTotals ==
    SeverityReturned =>
        LET dist == severity_assessment.severity_distribution
        IN  /\ severity_assessment.total_anomalies = Len(all_anomalies)
            /\ severity_assessment.total_anomalies =
                  dist["CRITICAL"] + dist["HIGH"] + dist["MEDIUM"] + dist["LOW"]
            /\ severity_assessment.critical_anomalies = dist["CRITICAL"]
            /\ severity_assessment.high_anomalies = dist["HIGH"]
            /\ \A tier \in Tiers : dist[tier] \in 0..Len(all_anomalies)

\* The classifier has counted a future_timestamp, a post_deletion_activity
\* and an anomaly of a type the table does not know.
C28_Witness ==
    /\ SeverityReturned
    /\ Len(all_anomalies) = 3
    /\ CountOfTypes({"future_timestamp"}) = 1
    /\ CountOfTypes({"post_deletion_activity"}) = 1
    /\ CountOfTypes({"unusual_hour"}) = 1
    /\ severity_assessment.critical_anomalies = 1
    /\ severity_assessment.high_anomalies = 1
    /\ severity_assessment.total_anomalies = 3

-----------------------------------------------------------------------------
(* The duplicate signature (SpecData).                                     *)

\* C29: when detect_data_inconsistencies has returned, two records of one
\* source were counted under the same duplicate signature only if their
\* timestamp, type and details are pairwise equal, an absent field being
\* different from an empty string.
C29_SignatureInjective ==
    DataReturned =>
        \A s \in SourceSet :
            \A i, j \in DOMAIN evidence_data[s] :
                Signature(evidence_data[s][i]) = Signature(evidence_data[s][j])
                    => Combination(evidence_data[s][i]) = Combination(evidence_data[s][j])

-----------------------------------------------------------------------------
(* Properties of detect_call_anomalies (SpecCalls).                        *)

\* detect_call_anomalies has returned.
CallAnomaliesReturned == call_pc = "detected"

\* The positions of the findings of a type.
FindingsOfType(ty) == {k \in DOMAIN findings : findings[k].type = ty}

\* C30: when detect_call_anomalies has returned, every call whose time of
\* day lies in 00:00-04:00 has exactly one unusual_hour finding, for a list
\* of any length, one call included, and every temporal_gap finding stands
\* before every unusual_hour finding.
C30_UnusualHourIndependent ==
    CallAnomaliesReturned =>
        LET Unusual(i) == /\ CallTime(calls[i]) # NoDatetime
                          /\ SecondOfDay(CallTime(calls[i])) \in 0..(4 * 3600)
            unusual == {i \in DOMAIN calls : Unusual(i)}
        IN  /\ Cardinality(FindingsOfType("unusual_hour")) = Cardinality(unusual)
            /\ \A i \in unusual :
                  Cardinality({k \in FindingsOfType("unusual_hour") :
                                  findings[k].timestamp = calls[i].timestamp.chars})
                    = Cardinality({j \in unusual : calls[j].timestamp = calls[i].timestamp})
            /\ \A g \in FindingsOfType("temporal_gap"), u \in FindingsOfType("unusual_hour") :
                  g < u

=============================================================================
